---- MODULE Spec2Model ----
(***************************************************************************)
(* firestore-mobx: the subscription lifecycle of ObservableDocument        *)
(* (src/src/document.ts, first revision in the file) and of                *)
(* ObservableCollection (src/src/collection.ts).                           *)
(*                                                                         *)
(* One behaviour exercises one observer: Init constructs either a document *)
(* or a collection observer, and the actions are the public operations of  *)
(* that observer, the MobX observation hooks, and the callbacks the store  *)
(* invokes (one-shot fetch resolutions, listener snapshots).               *)
(*                                                                         *)
(* Encoding.  A collection ref is its path <<c>>, a document ref its path  *)
(* <<c, id>>, JavaScript undefined is <<>>.  A document payload is the     *)
(* path of the document it was read from, so a payload names its source.   *)
(* A promise is a record: [state |-> "deferred", id |-> d] is the promise  *)
(* created by the d-th initializeReadyPromise (its fate is promises[d]),   *)
(* [state |-> "resolved", value |-> v] is a Promise.resolve(v).            *)
(***************************************************************************)
EXTENDS Integers, Sequences, FiniteSets, TLC

VARIABLES
  kind,        \* "document" or "collection": the observer under test
  document,    \* the fields of the ObservableDocument
  collection,  \* the fields of the ObservableCollection
  promises,    \* the promises created by initializeReadyPromise, in order
  subs,        \* the store's live subscriptions
  fetches,     \* the store's one-shot fetches in flight, with the generation that issued each
  consumers,   \* MobX: the number of reactions reading each observable field
  changes,     \* history: the number of source changes so far
  awaited,     \* history: the deferred promises ready() returned that are still pending
  fresh,       \* history: a snapshot of the current source was applied since it was bound
  op,          \* history: the last step: "attachTo" (with its argument), "ready", ...,
               \* "hook" for a MobX hook, "store" for a store callback; and the errors it raised
  calls        \* history: the store calls the last operation issued

vars == <<kind, document, collection, promises, subs, fetches, consumers,
          changes, awaited, fresh, op, calls>>

\* --------------------------------------------------------------- bounds
MaxChanges == 2
MaxConsumers == 2
MaxFetches == 1

\* --------------------------------------------------------------- values
undefined == <<>>

NoPromise == [state |-> "none", id |-> 0, value |-> undefined]

Deferred(d) == [state |-> "deferred", id |-> d, value |-> undefined]

Resolved(v) == [state |-> "resolved", id |-> 0, value |-> v]

\* A promise rejected with reason v.
Rejected(v) == [state |-> "rejected", id |-> 0, value |-> v]

\* The promise the store's add primitive returns; the store settles it.
StorePromise == [state |-> "store", id |-> 0, value |-> undefined]

\* The observer itself, returned for chaining.
This == [state |-> "this", id |-> 0, value |-> undefined]

Pending == [status |-> "pending", value |-> undefined, by |-> undefined]

Fields == {"data", "isLoading"}

\* The dataset of the store: two collections; "n" is an id no document has.
DocIds == {"a", "n"}

RefArgs == {<<"c2", "a">>}

Exists(ref) == ref[2] # "n"

\* getDoc / an onSnapshot callback: the snapshot of a document ref.
DocSnapshot(ref) ==
  [ref |-> ref, exists |-> Exists(ref),
   data |-> IF Exists(ref) THEN ref ELSE undefined]

\* What ready() resolves with for a snapshot: its payload, or undefined when
\* it reports that the document does not exist.
Payload(snapshot) == IF snapshot.exists THEN snapshot.data ELSE undefined

\* The smallest subscription id the store has not in use.
FreshSub(s) == CHOOSE i \in 0..Cardinality(s) : \A x \in s : x.id # i

\* The world an operation runs in: the observer's fields o, the store, and what
\* the operation has done so far (store calls, errors, its return value).
\* cause is the source of the snapshot being handled.
World(o) ==
  [o |-> o, promises |-> promises, subs |-> subs, fetches |-> fetches,
   calls |-> <<>>, errors |-> <<>>, ret |-> NoPromise,
   cause |-> undefined, seen |-> <<>>]

\* ------------------------------------------------ ObservableDocument
D_id(o) == IF o.documentRef # undefined THEN o.documentRef[2] ELSE "__no_id"

D_hasData(o) == o._data # undefined

\* get data(): assert(this._data, "No data available") throws without data.
D_data(o) ==
  IF o._data # undefined
    THEN [threw |-> FALSE, value |-> o._data]
    ELSE [threw |-> TRUE, value |-> undefined]

\* get document(): assert(this.documentRef && this._data, ...) throws without
\* a ref or without data.
D_document(o) ==
  IF o.documentRef # undefined /\ o._data # undefined
    THEN [threw |-> FALSE,
          value |-> [id |-> o.documentRef[2], data |-> o._data, ref |-> o.documentRef]]
    ELSE [threw |-> TRUE, value |-> undefined]

\* get path()
D_path(o) == o.documentRef

D_getPathFromCollectionRef(collectionRef) ==
  IF collectionRef # undefined
    THEN collectionRef \o <<"__no_document_id">>
    ELSE undefined

\* The fate of a promise no resolver refers to any more: what it resolved with
\* is read by nothing, and only whether it is settled is kept.
Superseded(p) ==
  IF p.status = "pending" THEN p ELSE [p EXCEPT !.value = undefined, !.by = Pending.by]

D_initializeReadyPromise(w) ==
  LET d == Len(w.promises) + 1 IN
  [w EXCEPT !.promises = Append([i \in 1..Len(@) |-> Superseded(@[i])], Pending),
            !.o.readyPromise = Deferred(d),
            !.o.readyResolveFn = d]

\* A promise settles once: resolving it again changes nothing.
Resolve(ps, d, v, by) ==
  IF ps[d].status = "pending"
    THEN [ps EXCEPT ![d] = [status |-> "resolved", value |-> v, by |-> by]]
    ELSE ps

\* changeReady that resolves with undefined whatever the data.
D_changeReady_Undefined(w, isReady) ==
  IF isReady
    THEN [w EXCEPT !.promises = Resolve(@, w.o.readyResolveFn, undefined, w.cause),
                   !.o.readyPromise = Resolved(undefined)]
    ELSE w

D_changeReady(w, isReady) ==
  IF isReady
    THEN LET v == IF D_hasData(w.o) THEN w.o._data ELSE undefined IN
         [w EXCEPT !.promises = Resolve(@, w.o.readyResolveFn, v, w.cause),
                   !.o.readyPromise = Resolved(v)]
    ELSE w

\* changeLoadingState that settles the promise but never writes isLoading.
D_changeLoadingState_Keep(w, isLoading) == D_changeReady(w, ~isLoading)

D_changeLoadingState(w, isLoading) ==
  LET w1 == D_changeReady(w, ~isLoading) IN
  [w1 EXCEPT !.o.isLoading = isLoading]

D_fetchInitialData(w) ==
  IF w.o.firedInitialFetch \/ w.o.documentRef = undefined
    THEN w
    ELSE [w EXCEPT !.fetches = @ \cup {[target |-> w.o.documentRef,
                                          gen |-> w.o.readyResolveFn]},
                   !.calls = Append(@, "getDoc"),
                   !.o.firedInitialFetch = TRUE]

D_ready(w) ==
  LET isListening == w.o.onSnapshotUnsubscribeFn # undefined
      w1 == IF ~isListening /\ w.o.documentRef # undefined
              THEN D_fetchInitialData(w)
              ELSE w
  IN  [w1 EXCEPT !.ret = w1.o.readyPromise]

\* handleError that drops the error.
D_handleError_Swallow(w, err) == w

D_handleError(w, err) ==
  IF w.o.onErrorCallback
    THEN [w EXCEPT !.errors = Append(@, [how |-> "callback", err |-> err])]
    ELSE [w EXCEPT !.errors = Append(@, [how |-> "thrown", err |-> err])]

\* What a callback or a reaction finds when it runs: the data, isLoading and
\* whether the current ready promise is resolved.
D_View(w, what) ==
  [what |-> what, data |-> w.o._data, isLoading |-> w.o.isLoading,
   status |-> w.promises[w.o.readyResolveFn].status]

\* The end of an outermost MobX transaction (runInAction, action): the
\* reactions that read a changed field run.
D_endTransaction(w, changed) ==
  IF \E f \in changed : consumers[f] > 0
    THEN [w EXCEPT !.seen = Append(@, D_View(w, "reaction"))]
    ELSE w

\* The observable fields on which before and after differ.
D_Changed(before, after) ==
  {f \in Fields : \/ f = "data" /\ before._data # after._data
                  \/ f = "isLoading" /\ before.isLoading # after.isLoading}

\* handleSnapshot calling the data callback last, after changeLoadingState.
D_handleSnapshot_CallbackLast(w, snapshot) ==
  LET data == IF snapshot.exists THEN snapshot.data ELSE undefined
      w1 == [w EXCEPT !.o._data = data, !.cause = snapshot.ref]
      w2 == D_changeLoadingState(w1, FALSE)
  IN  IF snapshot.exists /\ w2.o.onDataCallback
        THEN [w2 EXCEPT !.seen = Append(@, D_View(w2, "onData"))]
        ELSE w2

D_handleSnapshot(w, snapshot) ==
  LET data == IF snapshot.exists THEN snapshot.data ELSE undefined
      w1 == [w EXCEPT !.o._data = data, !.cause = snapshot.ref]
      w2 == IF snapshot.exists /\ w1.o.onDataCallback
              THEN [w1 EXCEPT !.seen = Append(@, D_View(w1, "onData"))]
              ELSE w1
      \* a payload is a new object: assigning one always notifies
      w3 == D_endTransaction(w2, IF D_hasData(w.o) \/ D_hasData(w2.o)
                                   THEN {"data"} ELSE {})
      w4 == D_changeLoadingState(w3, FALSE)
  IN  D_endTransaction(w4, D_Changed(w3.o, w4.o))

\* updateListeners without the unsubscribe step of lines 415-421.
D_updateListeners_NoUnsubscribe(w, shouldListen) ==
  LET isListening == w.o.onSnapshotUnsubscribeFn # undefined IN
  IF shouldListen /\ isListening /\ w.o.sourcePath = w.o.listenerSourcePath
    THEN w
    ELSE
      IF shouldListen /\ w.o.documentRef # undefined
        THEN LET i == FreshSub(w.subs) IN
             [w EXCEPT
                !.subs = @ \cup {[id |-> i, target |-> w.o.documentRef]},
                !.calls = Append(@, "onSnapshot"),
                !.o.onSnapshotUnsubscribeFn = <<i>>,
                !.o.listenerSourcePath = w.o.sourcePath]
        ELSE [w EXCEPT !.o.onSnapshotUnsubscribeFn = undefined,
                       !.o.listenerSourcePath = undefined]

D_updateListeners(w, shouldListen) ==
  LET isListening == w.o.onSnapshotUnsubscribeFn # undefined IN
  IF shouldListen /\ isListening /\ w.o.sourcePath = w.o.listenerSourcePath
    THEN w
    ELSE
      LET w1 == IF isListening
                  THEN [w EXCEPT
                          !.subs = {s \in @ : s.id # w.o.onSnapshotUnsubscribeFn[1]},
                          !.calls = Append(@, "unsubscribe"),
                          !.o.onSnapshotUnsubscribeFn = undefined,
                          !.o.listenerSourcePath = undefined]
                  ELSE w
      IN  IF shouldListen /\ w1.o.documentRef # undefined
            THEN LET i == FreshSub(w1.subs) IN
                 [w1 EXCEPT
                    !.subs = @ \cup {[id |-> i, target |-> w1.o.documentRef]},
                    !.calls = Append(@, "onSnapshot"),
                    !.o.onSnapshotUnsubscribeFn = <<i>>,
                    !.o.listenerSourcePath = w1.o.sourcePath]
            ELSE w1

D_resumeUpdates(w) ==
  LET w1 == [w EXCEPT !.o.observedCount = @ + 1] IN
  IF w1.o.observedCount = 1 THEN D_updateListeners(w1, TRUE) ELSE w1

\* suspendUpdates that only counts, leaving the listener attached.
D_suspendUpdates_CountOnly(w) == [w EXCEPT !.o.observedCount = @ - 1]

D_suspendUpdates(w) ==
  LET w1 == [w EXCEPT !.o.observedCount = @ - 1] IN
  IF w1.o.observedCount = 0 THEN D_updateListeners(w1, FALSE) ELSE w1

\* The tail shared by changeSourceViaRef and changeSourceViaId (document.ts
\* 313-334 and 365-386): w already holds the new documentRef and sourcePath.
D_resetForSource(w) ==
  LET hasSource == w.o.documentRef # undefined
      w1 == D_initializeReadyPromise([w EXCEPT !.o.firedInitialFetch = FALSE])
      w2 == [w1 EXCEPT !.o._data = undefined]
      w3 == IF w2.o.observedCount > 0
              THEN D_updateListeners(w2, hasSource)
              ELSE w2
  IN  D_changeLoadingState(w3, hasSource)

\* changeSourceViaRef without the early return of lines 301-303.
D_changeSourceViaRef_NoEarlyReturn(w, ref) ==
  D_resetForSource([w EXCEPT !.o.documentRef = ref, !.o.sourcePath = ref])

D_changeSourceViaRef(w, ref) ==
  IF w.o.documentRef # undefined /\ ref # undefined /\ w.o.documentRef = ref
    THEN w
    ELSE D_resetForSource([w EXCEPT !.o.documentRef = ref,
                                    !.o.sourcePath = ref])

D_changeSourceViaId(w, documentId) ==
  IF D_id(w.o) = documentId
    THEN w
    ELSE IF documentId # "" /\ w.o.collectionRef = undefined
      THEN D_handleError(w, "no known collection reference")
      ELSE
        LET newRef == IF documentId # "" /\ w.o.collectionRef # undefined
                        THEN w.o.collectionRef \o <<documentId>>
                        ELSE undefined
            newPath == IF newRef # undefined
                         THEN newRef
                         ELSE D_getPathFromCollectionRef(w.o.collectionRef)
        IN  D_resetForSource([w EXCEPT !.o.documentRef = newRef,
                                       !.o.sourcePath = newPath])

\* attachTo that fetches the new source at once.
D_attachTo_Fetching(w, arg) ==
  LET w1 == IF arg.ref = undefined
              THEN D_changeSourceViaId(w, arg.id)
              ELSE D_changeSourceViaRef(w, arg.ref)
  IN  [D_endTransaction(D_fetchInitialData(w1), D_Changed(w.o, w1.o))
         EXCEPT !.ret = This]

\* attachTo(documentIdOrRef): arg.ref is the ref passed, or undefined when a
\* string (arg.id) or nothing (arg.id = "") was passed.
D_attachTo(w, arg) ==
  LET w1 == IF arg.ref = undefined
              THEN D_changeSourceViaId(w, arg.id)
              ELSE D_changeSourceViaRef(w, arg.ref)
  IN  [D_endTransaction(w1, D_Changed(w.o, w1.o)) EXCEPT !.ret = This]

\* A constructor that enters the loading state for a collection ref too.
D_constructor_Loading(source) ==
  LET o0 == [_data |-> undefined, isLoading |-> FALSE,
             documentRef |-> undefined, collectionRef |-> undefined,
             readyPromise |-> NoPromise, readyResolveFn |-> 0,
             onSnapshotUnsubscribeFn |-> undefined, observedCount |-> 0,
             firedInitialFetch |-> FALSE, sourcePath |-> undefined,
             listenerSourcePath |-> undefined, onErrorCallback |-> FALSE,
             onDataCallback |-> FALSE]
      w0 == [o |-> o0, promises |-> <<>>, subs |-> {}, fetches |-> {},
             calls |-> <<>>, errors |-> <<>>,
             ret |-> NoPromise, cause |-> undefined, seen |-> <<>>]
      w1 == D_initializeReadyPromise(w0)
  IN  IF source = undefined
        THEN w1
        ELSE IF Len(source) = 1
          THEN D_changeLoadingState(
                 [w1 EXCEPT !.o.collectionRef = source, !.o.sourcePath = source], TRUE)
          ELSE D_changeLoadingState(
                 [w1 EXCEPT !.o.documentRef = source,
                            !.o.collectionRef = <<source[1]>>,
                            !.o.sourcePath = source], TRUE)

D_constructor(source) ==
  LET o0 == [_data |-> undefined, isLoading |-> FALSE,
             documentRef |-> undefined, collectionRef |-> undefined,
             readyPromise |-> NoPromise, readyResolveFn |-> 0,
             onSnapshotUnsubscribeFn |-> undefined, observedCount |-> 0,
             firedInitialFetch |-> FALSE, sourcePath |-> undefined,
             listenerSourcePath |-> undefined, onErrorCallback |-> FALSE,
             onDataCallback |-> FALSE]
      w0 == [o |-> o0, promises |-> <<>>, subs |-> {}, fetches |-> {},
             calls |-> <<>>, errors |-> <<>>,
             ret |-> NoPromise, cause |-> undefined, seen |-> <<>>]
      w1 == D_initializeReadyPromise(w0)
  IN  IF source = undefined
        THEN w1
        ELSE IF Len(source) = 1
          THEN [w1 EXCEPT !.o.collectionRef = source, !.o.sourcePath = source]
          ELSE D_changeLoadingState(
                 [w1 EXCEPT !.o.documentRef = source,
                            !.o.collectionRef = <<source[1]>>,
                            !.o.sourcePath = source], TRUE)

D_Sources == {undefined, <<"c1">>, <<"c1", "a">>}

D_AttachArgs ==
  {[id |-> i, ref |-> undefined] : i \in DocIds \cup {""}}
    \cup {[id |-> "", ref |-> r] : r \in RefArgs}

\* ---------------------------------------------- ObservableCollection
\* A query is the collection it reads and the ordering its creator function
\* asked for; a collection ref used as a fetch or listen target is the query
\* with no ordering.  Query.isEqual compares both.
NoQuery == [ref |-> undefined, order |-> ""]

\* The query creator functions callers pass.
QueryFns == {"byTitle", "byDate"}

Order(queryCreatorFn) == IF queryCreatorFn = "byDate" THEN "date" ELSE "title"

CreateQuery(queryCreatorFn, ref) == [ref |-> ref, order |-> Order(queryCreatorFn)]

\* The dataset: the ids of the documents of each collection, in id order.
CollectionIds(ref) == IF ref = <<"c1">> THEN <<"x", "y">> ELSE <<"z">>

Reverse(q) == [i \in 1..Len(q) |-> q[Len(q) + 1 - i]]

\* query.get() / an onSnapshot callback: the rows of a query snapshot.
QuerySnapshot(target) ==
  LET ids == IF target.order = "date" THEN Reverse(CollectionIds(target.ref))
                                      ELSE CollectionIds(target.ref)
  IN  [target |-> target,
       docs |-> [i \in 1..Len(ids) |->
                  [id |-> ids[i], ref |-> target.ref \o <<ids[i]>>,
                   fields |-> target.ref \o <<ids[i]>>]]]

C_World(o) == [World(o) EXCEPT !.cause = NoQuery]

\* What ready() fetches and updateListeners subscribes to.
C_target(o) ==
  IF o._query # NoQuery THEN o._query
  ELSE IF o.collectionRef # undefined THEN [NoQuery EXCEPT !.ref = o.collectionRef]
  ELSE NoQuery

\* shortid.generate(): an id that differs from every id the observer holds.
C_generate(w) ==
  [w EXCEPT !.o.sourcePath =
     CHOOSE t \in 1..3 : t \notin {w.o.sourcePath, w.o.listenerSourcePath}]

C_Pending == [Pending EXCEPT !.by = NoQuery]

C_Superseded(p) ==
  IF p.status = "pending" THEN p ELSE [C_Pending EXCEPT !.status = "resolved"]

C_initializeReadyPromise(w) ==
  LET d == Len(w.promises) + 1 IN
  [w EXCEPT !.promises = Append([i \in 1..Len(@) |-> C_Superseded(@[i])],
                                C_Pending),
            !.o.readyPromise = Deferred(d),
            !.o.readyResolveFn = d]

\* changeReady resolving with no documents instead of this.docs.
C_changeReady_Empty(w, isReady) ==
  IF isReady
    THEN [w EXCEPT !.promises = Resolve(@, w.o.readyResolveFn, <<>>, w.cause),
                   !.o.readyPromise = Resolved(<<>>)]
    ELSE w

C_changeReady(w, isReady) ==
  IF isReady
    THEN [w EXCEPT !.promises = Resolve(@, w.o.readyResolveFn, w.o.docs, w.cause),
                   !.o.readyPromise = Resolved(w.o.docs)]
    ELSE w

C_changeLoadingState(w, isLoading) ==
  LET w1 == C_changeReady(w, ~isLoading) IN
  [w1 EXCEPT !.o.isLoading = isLoading]

\* handleError that drops the error.
C_handleError_Swallow(w, err) == w

C_handleError(w, err) ==
  IF w.o.onError
    THEN [w EXCEPT !.errors = Append(@, [how |-> "callback", err |-> err])]
    ELSE [w EXCEPT !.errors = Append(@, [how |-> "thrown", err |-> err])]

C_fetchInitialData(w) ==
  IF w.o.firedInitialFetch
    THEN w
    ELSE IF w.o.collectionRef = undefined
      THEN C_handleError(w, "Can not fetch data without a collection reference")
      ELSE [w EXCEPT !.fetches = @ \cup {[target |-> C_target(w.o)]},
                     !.calls = Append(@, "get"),
                     !.o.firedInitialFetch = TRUE]

NoRefToAdd == "Can not add a document to a collection that has no ref"

\* add that hands the data to the store whether or not a ref is bound.
C_add_Delegate(w, data) ==
  [w EXCEPT !.calls = Append(@, "add"), !.ret = StorePromise]

\* async add(data): without a collection ref handleError runs (a throw inside
\* the async function rejects the returned promise) and the promise is
\* rejected; with one the store's add is called and its promise returned.
C_add(w, data) ==
  IF w.o.collectionRef = undefined
    THEN [C_handleError(w, NoRefToAdd) EXCEPT !.ret = Rejected(NoRefToAdd)]
    ELSE [w EXCEPT !.calls = Append(@, "add"), !.ret = StorePromise]

Threw(w) == \E i \in 1..Len(w.errors) : w.errors[i].how = "thrown"

C_ready(w) ==
  LET isListening == w.o.onSnapshotUnsubscribeFn # undefined
      w1 == IF ~isListening THEN C_fetchInitialData(w) ELSE w
  IN  IF Threw(w1) THEN w1 ELSE [w1 EXCEPT !.ret = w1.o.readyPromise]

\* handleSnapshot that appends the rows to the documents held.
C_handleSnapshot_Append(w, snapshot) ==
  LET docs == [i \in 1..Len(snapshot.docs) |->
                 [id |-> snapshot.docs[i].id,
                  ref |-> snapshot.docs[i].ref,
                  data |-> snapshot.docs[i].fields]]
      w1 == [w EXCEPT !.o.docs = @ \o docs, !.cause = snapshot.target]
  IN  C_changeLoadingState(w1, FALSE)

C_handleSnapshot(w, snapshot) ==
  LET docs == [i \in 1..Len(snapshot.docs) |->
                 [id |-> snapshot.docs[i].id,
                  ref |-> snapshot.docs[i].ref,
                  data |-> snapshot.docs[i].fields]]
      w1 == [w EXCEPT !.o.docs = docs, !.cause = snapshot.target]
  IN  C_changeLoadingState(w1, FALSE)

\* updateListeners without the guard of lines 410-417: every request to
\* listen tears the listener down and subscribes again.
C_updateListeners_NoGuard(w, shouldListen) ==
  LET isListening == w.o.onSnapshotUnsubscribeFn # undefined
      w1 == IF isListening
              THEN [w EXCEPT
                      !.subs = {s \in @ : s.id # w.o.onSnapshotUnsubscribeFn[1]},
                      !.calls = Append(@, "unsubscribe"),
                      !.o.onSnapshotUnsubscribeFn = undefined,
                      !.o.listenerSourcePath = 0]
              ELSE w
  IN  IF shouldListen
        THEN LET i == FreshSub(w1.subs)
                 w2 == IF C_target(w1.o) # NoQuery
                         THEN [w1 EXCEPT
                                 !.subs = @ \cup {[id |-> i,
                                                   target |-> C_target(w1.o),
                                                   executionCount |-> 0]},
                                 !.calls = Append(@, "onSnapshot"),
                                 !.o.onSnapshotUnsubscribeFn = <<i>>]
                         ELSE w1
             IN  [w2 EXCEPT !.o.listenerSourcePath = w2.o.sourcePath]
        ELSE w1

C_updateListeners(w, shouldListen) ==
  LET isListening == w.o.onSnapshotUnsubscribeFn # undefined IN
  IF shouldListen /\ isListening /\ w.o.sourcePath = w.o.listenerSourcePath
    THEN w
    ELSE
      LET w1 == IF isListening
                  THEN [w EXCEPT
                          !.subs = {s \in @ : s.id # w.o.onSnapshotUnsubscribeFn[1]},
                          !.calls = Append(@, "unsubscribe"),
                          !.o.onSnapshotUnsubscribeFn = undefined,
                          !.o.listenerSourcePath = 0]
                  ELSE w
      IN  IF shouldListen
            THEN LET i == FreshSub(w1.subs)
                     w2 == IF C_target(w1.o) # NoQuery
                             THEN [w1 EXCEPT
                                     !.subs = @ \cup {[id |-> i,
                                                       target |-> C_target(w1.o),
                                                       executionCount |-> 0]},
                                     !.calls = Append(@, "onSnapshot"),
                                     !.o.onSnapshotUnsubscribeFn = <<i>>]
                             ELSE w1
                 IN  [w2 EXCEPT !.o.listenerSourcePath = w2.o.sourcePath]
            ELSE w1

C_resumeUpdates(w) ==
  LET w1 == [w EXCEPT !.o.observedCount = @ + 1] IN
  IF w1.o.observedCount = 1 THEN C_updateListeners(w1, TRUE) ELSE w1

C_suspendUpdates(w) ==
  LET w1 == [w EXCEPT !.o.observedCount = @ - 1] IN
  IF w1.o.observedCount = 0 THEN C_updateListeners(w1, FALSE) ELSE w1

C_changeSource(w, newRef) ==
  IF w.o.collectionRef = undefined /\ newRef = undefined
    THEN w
  ELSE IF w.o.collectionRef # undefined /\ newRef # undefined
            /\ w.o.collectionRef = newRef
    THEN w
  ELSE
    LET w1 == C_initializeReadyPromise(
                [w EXCEPT !.o.firedInitialFetch = FALSE,
                          !.o.collectionRef = newRef])
    IN  IF newRef # undefined
          THEN LET w2 == IF w1.o.queryCreatorFn # ""
                           THEN C_generate(
                                  [w1 EXCEPT !.o._query =
                                     CreateQuery(w1.o.queryCreatorFn, newRef)])
                           ELSE w1
                   w3 == IF w2.o.observedCount > 0
                           THEN C_updateListeners(w2, TRUE)
                           ELSE w2
               IN  C_changeLoadingState(w3, TRUE)
          ELSE LET w2 == IF w1.o.observedCount > 0
                           THEN C_updateListeners(w1, FALSE)
                           ELSE w1
               IN  C_changeLoadingState([w2 EXCEPT !.o.docs = <<>>], FALSE)

\* attachTo(newRef) has no return statement: ret stays NoPromise.
C_attachTo(w, newRef) == C_changeSource(w, newRef)

\* set query without its two early returns: every assignment resets.
C_setQuery_AlwaysReset(w, queryCreatorFn) ==
  LET newQuery == IF queryCreatorFn # "" /\ w.o.collectionRef # undefined
                    THEN CreateQuery(queryCreatorFn, w.o.collectionRef)
                    ELSE NoQuery
      hasSource == w.o.collectionRef # undefined \/ newQuery # NoQuery
      w1 == C_generate([w EXCEPT !.o.queryCreatorFn = queryCreatorFn,
                                 !.o.firedInitialFetch = FALSE,
                                 !.o._query = newQuery])
      w2 == IF w1.o.observedCount > 0 THEN C_updateListeners(w1, hasSource) ELSE w1
  IN  IF hasSource
        THEN C_changeLoadingState(w2, TRUE)
        ELSE C_changeLoadingState([w2 EXCEPT !.o.docs = <<>>], FALSE)

\* set query(queryCreatorFn): "" is undefined.
C_setQuery(w, queryCreatorFn) ==
  LET w0 == [w EXCEPT !.o.queryCreatorFn = queryCreatorFn]
      newQuery == IF queryCreatorFn # "" /\ w.o.collectionRef # undefined
                    THEN CreateQuery(queryCreatorFn, w.o.collectionRef)
                    ELSE NoQuery
  IN  IF newQuery # NoQuery /\ w.o._query # NoQuery /\ newQuery = w.o._query
        THEN w0
      ELSE IF newQuery = NoQuery /\ w.o._query = NoQuery
        THEN w0
      ELSE
        LET hasSource == w.o.collectionRef # undefined \/ newQuery # NoQuery
            w1 == C_generate([w0 EXCEPT !.o.firedInitialFetch = FALSE,
                                        !.o._query = newQuery])
        IN  IF ~hasSource
              THEN LET w2 == IF w1.o.observedCount > 0
                               THEN C_updateListeners(w1, FALSE)
                               ELSE w1
                   IN  C_changeLoadingState([w2 EXCEPT !.o.docs = <<>>], FALSE)
              ELSE LET w2 == IF w1.o.observedCount > 0
                               THEN C_updateListeners(w1, TRUE)
                               ELSE w1
                   IN  C_changeLoadingState(w2, TRUE)

C_constructor(ref, queryCreatorFn, ignoreInitialSnapshot) ==
  LET o0 == [docs |-> <<>>, isLoading |-> FALSE,
             collectionRef |-> undefined, _query |-> NoQuery,
             queryCreatorFn |-> "",
             readyPromise |-> NoPromise, readyResolveFn |-> 0,
             onSnapshotUnsubscribeFn |-> undefined,
             ignoreInitialSnapshot |-> FALSE,
             observedCount |-> 0, firedInitialFetch |-> FALSE,
             sourcePath |-> 0, listenerSourcePath |-> 0, onError |-> FALSE]
      w0 == [o |-> o0, promises |-> <<>>, subs |-> {}, fetches |-> {},
             calls |-> <<>>, errors |-> <<>>,
             ret |-> NoPromise, cause |-> NoQuery, seen |-> <<>>]
      w1 == [C_initializeReadyPromise(w0) EXCEPT !.o.collectionRef = ref]
      w2 == IF queryCreatorFn # ""
              THEN C_generate(
                     [w1 EXCEPT !.o.queryCreatorFn = queryCreatorFn,
                                !.o._query = IF ref # undefined
                                               THEN CreateQuery(queryCreatorFn, ref)
                                               ELSE NoQuery])
              ELSE w1
      w3 == [w2 EXCEPT !.o.ignoreInitialSnapshot = ignoreInitialSnapshot]
  IN  IF ref # undefined THEN C_changeLoadingState(w3, TRUE) ELSE w3

CollectionRefs == {<<"c2">>}

\* ------------------------------------------------------------- actions
Readers == consumers["data"] + consumers["isLoading"]

NoCollection == [none |-> TRUE]

\* A step that takes no argument.
NoArg == [none |-> TRUE]

NoOp == [name |-> "new", arg |-> NoArg, ret |-> NoPromise, errors |-> <<>>, seen |-> <<>>]

\* The state an operation leaves: the observer's fields, the store, and the
\* record of what the operation was and did.
D_Commit(w, name, arg) ==
  /\ document' = w.o
  /\ promises' = w.promises
  /\ subs' = w.subs
  /\ fetches' = w.fetches
  /\ calls' = w.calls
  /\ op' = [name |-> name, arg |-> arg, ret |-> w.ret,
           errors |-> w.errors, seen |-> w.seen]
  /\ changes' = changes + (Len(w.promises) - Len(promises))
  /\ awaited' = {d \in awaited \cup (IF w.ret.state = "deferred" THEN {w.ret.id} ELSE {}) :
                    w.promises[d].status = "pending"}
  /\ fresh' = IF w.o.readyResolveFn # document.readyResolveFn
                THEN FALSE
                ELSE fresh \/ (w.cause # undefined /\ w.cause = w.o.documentRef)
  /\ UNCHANGED <<kind, collection>>

InitDocument ==
  \E source \in D_Sources :
    LET w == D_constructor(source) IN
    /\ kind = "document"
    /\ document = w.o
    /\ collection = NoCollection
    /\ promises = w.promises
    /\ subs = w.subs
    /\ fetches = w.fetches
    /\ consumers = [f \in Fields |-> 0]
    /\ changes = 0
    /\ awaited = {}
    /\ fresh = FALSE
    /\ op = NoOp
    /\ calls = w.calls

D_AttachTo ==
  /\ kind = "document"
  /\ \E arg \in D_AttachArgs :
       LET w == D_attachTo(World(document), arg) IN
       /\ Len(w.promises) = Len(promises) \/ changes < MaxChanges
       /\ D_Commit(w, "attachTo", arg)
       /\ UNCHANGED consumers

D_Ready ==
  /\ kind = "document"
  /\ D_Commit(D_ready(World(document)), "ready", NoArg)
  /\ UNCHANGED consumers

D_OnError ==
  /\ kind = "document"
  /\ ~document.onErrorCallback
  /\ D_Commit([World(document) EXCEPT !.o.onErrorCallback = TRUE], "onError", NoArg)
  /\ UNCHANGED consumers

D_OnData ==
  /\ kind = "document"
  /\ ~document.onDataCallback
  /\ D_Commit([World(document) EXCEPT !.o.onDataCallback = TRUE], "onData", NoArg)
  /\ UNCHANGED consumers

\* A reaction starts reading field f: MobX runs the onBecomeObserved hook of f
\* when f gets its first reader.
D_Observe ==
  /\ kind = "document"
  /\ \E f \in Fields :
       /\ Readers < MaxConsumers
       /\ consumers' = [consumers EXCEPT ![f] = @ + 1]
       /\ D_Commit(IF consumers[f] = 0 THEN D_resumeUpdates(World(document))
                                        ELSE World(document),
                   "hook", NoArg)

\* A reaction reading field f is disposed: MobX runs the onBecomeUnobserved
\* hook of f when f loses its last reader.
D_Unobserve ==
  /\ kind = "document"
  /\ \E f \in Fields :
       /\ consumers[f] > 0
       /\ consumers' = [consumers EXCEPT ![f] = @ - 1]
       /\ D_Commit(IF consumers[f] = 1 THEN D_suspendUpdates(World(document))
                                        ELSE World(document),
                   "hook", NoArg)

\* A store callback that drops the answer to a fetch of a source no longer
\* bound.
D_FetchResolves_DiscardStale ==
  /\ kind = "document"
  /\ \E f \in fetches :
       LET w0 == [World(document) EXCEPT !.fetches = @ \ {f}] IN
       /\ D_Commit(IF f.target = document.documentRef
                     THEN D_handleSnapshot(w0, DocSnapshot(f.target))
                     ELSE w0,
                   "store", [target |-> f.target])
       /\ UNCHANGED consumers

\* The store answers a one-shot fetch: getDoc(ref).then(handleSnapshot).
D_FetchResolves ==
  /\ kind = "document"
  /\ \E f \in fetches :
       LET w0 == [World(document) EXCEPT !.fetches = @ \ {f}] IN
       /\ D_Commit(D_handleSnapshot(w0, DocSnapshot(f.target)),
                   "store", [target |-> f.target])
       /\ UNCHANGED consumers

\* The errors the store reports, by message.
StoreErrors == {"permission-denied"}

\* new Error(`Fetch initial data failed: ${err.message}`)
FetchFailed(err) == "Fetch initial data failed: " \o err

\* The store rejects a one-shot fetch: getDoc(ref).catch(err => handleError(...)).
D_FetchFails ==
  /\ kind = "document"
  /\ \E f \in fetches, err \in StoreErrors :
       LET w0 == [World(document) EXCEPT !.fetches = @ \ {f}] IN
       /\ D_Commit(D_handleError(w0, FetchFailed(err)), "fetchError", [err |-> err])
       /\ UNCHANGED consumers

\* The store reports an error to a live subscription: err => handleError(err).
D_ListenerError ==
  /\ kind = "document"
  /\ \E s \in subs, err \in StoreErrors :
       /\ D_Commit(D_handleError(World(document), err), "listenerError", [err |-> err])
       /\ UNCHANGED consumers

\* A listener callback that stores the data and leaves the loading state and
\* the ready promise to a fetch.
D_ListenerSnapshot_DataOnly ==
  /\ kind = "document"
  /\ \E s \in subs :
       D_Commit([World(document) EXCEPT
                   !.o._data = Payload(DocSnapshot(s.target)),
                   !.cause = s.target],
                "store", [target |-> s.target])
       /\ UNCHANGED consumers

\* The store delivers a snapshot to a live subscription.
D_ListenerSnapshot ==
  /\ kind = "document"
  /\ \E s \in subs :
       D_Commit(D_handleSnapshot(World(document), DocSnapshot(s.target)),
                "store", [target |-> s.target])
       /\ UNCHANGED consumers

DocNext ==
  \/ D_AttachTo
  \/ D_Ready
  \/ D_OnError
  \/ D_OnData
  \/ D_Observe
  \/ D_Unobserve
  \/ D_FetchResolves
  \/ D_FetchFails
  \/ D_ListenerSnapshot
  \/ D_ListenerError

\* The document observer alone.
DocSpec == InitDocument /\ [][DocNext]_vars

\* The store answers every one-shot fetch and delivers a snapshot to every
\* subscription that stays attached; the caller's operations are not forced.
DocLiveSpec ==
  DocSpec /\ WF_vars(D_FetchResolves) /\ WF_vars(D_ListenerSnapshot)

NoDocument == [none |-> TRUE]

C_Fields == {"docs", "isLoading"}

C_Readers == consumers["docs"] + consumers["isLoading"]

\* The operation changed the source: it made a ready promise or a source path.
C_Changed(w) ==
  \/ Len(w.promises) # Len(promises)
  \/ w.o.sourcePath # collection.sourcePath

C_Commit(w, name, arg) ==
  /\ collection' = w.o
  /\ promises' = w.promises
  /\ subs' = w.subs
  /\ fetches' = w.fetches
  /\ calls' = w.calls
  /\ op' = [name |-> name, arg |-> arg, ret |-> w.ret,
           errors |-> w.errors, seen |-> w.seen]
  /\ changes' = IF C_Changed(w) THEN changes + 1 ELSE changes
  /\ awaited' = {d \in awaited \cup (IF w.ret.state = "deferred" THEN {w.ret.id} ELSE {}) :
                    w.promises[d].status = "pending"}
  /\ fresh' = IF C_target(w.o) # C_target(collection)
                THEN FALSE
                ELSE fresh \/ (w.cause # NoQuery /\ w.cause = C_target(w.o))
  /\ UNCHANGED <<kind, document>>

InitCollection ==
  \E ref \in {undefined, <<"c1">>}, queryCreatorFn \in {"", "byTitle"},
     ignoreInitialSnapshot \in BOOLEAN :
    LET w == C_constructor(ref, queryCreatorFn, ignoreInitialSnapshot) IN
    /\ kind = "collection"
    /\ document = NoDocument
    /\ collection = w.o
    /\ promises = w.promises
    /\ subs = w.subs
    /\ fetches = w.fetches
    /\ consumers = [f \in C_Fields |-> 0]
    /\ changes = 0
    /\ awaited = {}
    /\ fresh = FALSE
    /\ op = NoOp
    /\ calls = w.calls

C_AttachTo ==
  /\ kind = "collection"
  /\ \E newRef \in CollectionRefs \cup {undefined} :
       LET w == C_attachTo(C_World(collection), newRef) IN
       /\ C_Changed(w) => changes < MaxChanges
       /\ C_Commit(w, "attachTo", [ref |-> newRef])
       /\ UNCHANGED consumers

C_SetQuery ==
  /\ kind = "collection"
  /\ \E queryCreatorFn \in QueryFns \cup {""} :
       LET w == C_setQuery(C_World(collection), queryCreatorFn) IN
       /\ C_Changed(w) => changes < MaxChanges
       /\ C_Commit(w, "setQuery", [queryCreatorFn |-> queryCreatorFn])
       /\ UNCHANGED consumers

C_Ready ==
  /\ kind = "collection"
  /\ LET w == C_ready(C_World(collection)) IN
     /\ Cardinality(w.fetches) <= MaxFetches
     /\ C_Commit(w, "ready", NoArg)
  /\ UNCHANGED consumers

\* The caller assigns the public onError field.
C_OnError ==
  /\ kind = "collection"
  /\ ~collection.onError
  /\ C_Commit([C_World(collection) EXCEPT !.o.onError = TRUE], "onError", NoArg)
  /\ UNCHANGED consumers

\* The documents a test hands to add.
AddData == {[title |-> "t"]}

\* collection.add(data); the step records the data and the promise returned.
C_Add ==
  /\ kind = "collection"
  /\ \E data \in AddData :
       LET w == C_add(C_World(collection), data) IN
       /\ C_Commit(w, "add", [data |-> data, ret |-> w.ret])
       /\ UNCHANGED consumers

C_Observe ==
  /\ kind = "collection"
  /\ \E f \in C_Fields :
       /\ C_Readers < MaxConsumers
       /\ consumers' = [consumers EXCEPT ![f] = @ + 1]
       /\ C_Commit(IF consumers[f] = 0 THEN C_resumeUpdates(C_World(collection))
                                        ELSE C_World(collection),
                   "hook", NoArg)

C_Unobserve ==
  /\ kind = "collection"
  /\ \E f \in C_Fields :
       /\ consumers[f] > 0
       /\ consumers' = [consumers EXCEPT ![f] = @ - 1]
       /\ C_Commit(IF consumers[f] = 1 THEN C_suspendUpdates(C_World(collection))
                                        ELSE C_World(collection),
                   "hook", NoArg)

\* The store answers a one-shot fetch: query.get().then(handleSnapshot).
C_FetchResolves ==
  /\ kind = "collection"
  /\ \E f \in fetches :
       LET w0 == [C_World(collection) EXCEPT !.fetches = @ \ {f}] IN
       /\ C_Commit(C_handleSnapshot(w0, QuerySnapshot(f.target)),
                   "store", [target |-> f.target])
       /\ UNCHANGED consumers

\* The store rejects a one-shot fetch: query.get().catch(err => handleError(...)).
C_FetchFails ==
  /\ kind = "collection"
  /\ \E f \in fetches, err \in StoreErrors :
       LET w0 == [C_World(collection) EXCEPT !.fetches = @ \ {f}] IN
       /\ C_Commit(C_handleError(w0, FetchFailed(err)), "fetchError", [err |-> err])
       /\ UNCHANGED consumers

\* The store reports an error to a live subscription: err => handleError(err).
C_ListenerError ==
  /\ kind = "collection"
  /\ \E s \in subs, err \in StoreErrors :
       /\ C_Commit(C_handleError(C_World(collection), err), "listenerError", [err |-> err])
       /\ UNCHANGED consumers

\* executeFromCount that passes every invocation on.
executeFromCount_NoSkip(w, s, count, snapshot) == C_handleSnapshot(w, snapshot)

\* executeFromCount(fn, count): the callback handed to onSnapshot drops its
\* first count invocations and passes the later ones to fn.
executeFromCount(w, s, count, snapshot) ==
  IF s.executionCount < count
    THEN [w EXCEPT !.subs = (@ \ {s}) \cup
                            {[s EXCEPT !.executionCount = @ + 1]}]
    ELSE C_handleSnapshot(w, snapshot)

\* The store delivers a snapshot to a live subscription.
C_ListenerSnapshot ==
  /\ kind = "collection"
  /\ \E s \in subs :
       /\ C_Commit(executeFromCount(C_World(collection), s,
                                    IF collection.ignoreInitialSnapshot THEN 1 ELSE 0,
                                    QuerySnapshot(s.target)),
                   "store", [target |-> s.target])
       /\ UNCHANGED consumers

ColNext ==
  \/ C_AttachTo
  \/ C_SetQuery
  \/ C_Ready
  \/ C_OnError
  \/ C_Add
  \/ C_Observe
  \/ C_Unobserve
  \/ C_FetchResolves
  \/ C_FetchFails
  \/ C_ListenerSnapshot
  \/ C_ListenerError

\* The collection observer alone.
ColSpec == InitCollection /\ [][ColNext]_vars

ColLiveSpec ==
  ColSpec /\ WF_vars(C_FetchResolves) /\ WF_vars(C_ListenerSnapshot)

\* Either observer.
Init == InitDocument \/ InitCollection

Next == DocNext \/ ColNext

Spec == Init /\ [][Next]_vars

\* ------------------------------------------------------------- claims
D_isListening == document.onSnapshotUnsubscribeFn # undefined

\* The promise ready() returns in this state is deferred promise d, unresolved.
D_ReturnsPending(d) ==
  /\ document.readyPromise = Deferred(d)
  /\ promises[d].status = "pending"

\* arg names a document other than the bound one.
D_OtherLocator(o, arg) ==
  IF arg.ref = undefined
    THEN arg.id # "" /\ arg.id # D_id(o)
    ELSE arg.ref # o.documentRef

Returned == \A i \in 1..Len(op.errors) : op.errors[i].how # "thrown"

\* What C1 promises of the state attachTo returns in.
D_SwitchedCleanly ==
  /\ ~D_hasData(document)
  /\ document.isLoading
  /\ D_ReturnsPending(Len(promises))
  /\ document.observedCount > 0 =>
       /\ D_isListening
       /\ subs = {[id |-> document.onSnapshotUnsubscribeFn[1],
                   target |-> document.documentRef]}
  /\ IF op.arg.ref = undefined
       THEN D_id(document) = op.arg.id
       ELSE document.documentRef = op.arg.ref

\* C1: when attachTo is called with an id or ref other than the bound one while
\* data is present, then on return data is absent, isLoading is true, a fresh
\* unresolved ready promise is installed and, if the document is observed, the
\* only live listener is one on the new document.
C1_SwitchResetsCleanly ==
  [][(/\ kind = "document"
      /\ D_hasData(document)
      /\ op'.name = "attachTo"
      /\ D_OtherLocator(document, op'.arg)
      /\ Returned')
       => /\ D_SwitchedCleanly'
          /\ Len(promises') = Len(promises) + 1]_vars

\* C7: the ready promise of the bound document is resolved only by a snapshot
\* of that document, never by a snapshot of a source bound earlier.
C7_NoStaleResolution ==
  kind = "document" /\ document.documentRef # undefined
    => LET p == promises[document.readyResolveFn] IN
       p.status = "resolved" => p.by = document.documentRef

\* C9: a live listener is attached exactly when some field is observed and a
\* document is bound; it is the only subscription, it is on the bound document,
\* and the observed count is the number of fields that have a reader.
C9_ObservationToggling ==
  kind = "document" =>
    /\ D_isListening <=> (document.observedCount > 0 /\ document.documentRef # undefined)
    /\ document.observedCount = Cardinality({f \in Fields : consumers[f] > 0})
    /\ subs = IF D_isListening
                THEN {[id |-> document.onSnapshotUnsubscribeFn[1],
                       target |-> document.documentRef]}
                ELSE {}

C9_Witness ==
  /\ kind = "document"
  /\ consumers["isLoading"] = 2
  /\ D_isListening
  /\ Cardinality(subs) = 1

\* The one-shot fetches in flight that the current generation issued.
D_OwnFetches == {f \in fetches : f.gen = document.readyResolveFn}

Generations == 1..(MaxChanges + 1)

\* The fate of deferred promise d: "none" when it was not created yet.
Status(d) == IF d \in DOMAIN promises THEN promises[d].status ELSE "none"

\* C5: ready() on a document with no locator contacts the store not at all, and
\* the promise it returns is eventually resolved.
C5_ReadyWithoutLocator ==
  /\ [](kind = "document" /\ op.name = "ready" /\ document.documentRef = undefined
          => calls = <<>> /\ subs = {})
  /\ \A d \in Generations :
       (/\ kind = "document"
        /\ d \in awaited
        /\ document.readyResolveFn = d
        /\ document.documentRef = undefined)
         ~> (Status(d) = "resolved")

\* The fetch ready() issued for the bound source is gone and did not resolve
\* the promise: it failed.
D_OwnFetchFailed ==
  /\ kind = "document"
  /\ document.documentRef # undefined
  /\ document.firedInitialFetch
  /\ D_OwnFetches = {}
  /\ promises[document.readyResolveFn].status = "pending"

\* C6: every promise ready() returned for the bound document is eventually
\* resolved, unless the source is changed first or the store fails the fetch
\* instead of answering it.
C6_ReadyEventuallyResolves ==
  \A d \in Generations :
    (/\ kind = "document"
     /\ d \in awaited
     /\ document.readyResolveFn = d
     /\ document.documentRef # undefined)
      ~> (\/ Status(d) = "resolved"
          \/ document.readyResolveFn # d
          \/ D_OwnFetchFailed)

C_isListening == collection.onSnapshotUnsubscribeFn # undefined

\* C2: whenever the collection has a live listener, every subscription it holds
\* is on the bound query, or on the bound collection ref when there is no query.
C2_ListenerFollowsSource ==
  kind = "collection" /\ C_isListening
    => /\ subs # {}
       /\ \A s \in subs : s.target = C_target(collection)

\* The promise ready() returns in this state is a deferred one, unresolved.
C_ReturnsPending ==
  /\ collection.readyPromise.state = "deferred"
  /\ promises[collection.readyPromise.id].status = "pending"

\* C3: when the query setter has installed a query and no snapshot has been
\* applied since, the promise the next ready() call returns is unresolved: it
\* waits for a snapshot of the new query.
C3_ReadyRearmedByQueryChange ==
  [][(/\ kind = "collection"
      /\ op.name = "setQuery"
      /\ collection._query # NoQuery
      /\ collection.isLoading
      /\ ~fresh
      /\ op'.name = "ready")
       => C_ReturnsPending']_vars

\* attachTo is called with the locator the observer is bound to.
SameLocator ==
  /\ op'.name = "attachTo"
  /\ IF kind = "document"
       THEN /\ document.documentRef # undefined
            /\ IF op'.arg.ref = undefined
                 THEN op'.arg.id = D_id(document)
                 ELSE op'.arg.ref = document.documentRef
       ELSE /\ collection.collectionRef # undefined
            /\ op'.arg.ref = collection.collectionRef

\* C8: attachTo with the locator the observer is already bound to changes no
\* field of the observer (ready promise and resolver, data or documents,
\* isLoading, the fetched-once flag, the listener handle), resolves no promise,
\* and issues no subscribe, unsubscribe or fetch.
C8_IdempotentAttach ==
  [][SameLocator
       => /\ UNCHANGED <<document, collection, promises, subs, fetches>>
          /\ calls' = <<>>
          /\ op'.errors = <<>>]_vars

\* attachTo with the bound id returned on a document that has data and a
\* listener: a switch would have cleared the data.
C8_Witness ==
  /\ kind = "document"
  /\ op.name = "attachTo"
  /\ op.arg.ref = undefined
  /\ op.arg.id = D_id(document)
  /\ D_hasData(document)
  /\ D_isListening

\* C10: an observer never has more than one live subscription, and an
\* operation that subscribes while a subscription exists unsubscribes first.
C10_AtMostOneSubscription ==
  /\ [](Cardinality(subs) <= 1)
  /\ [][\A i \in 1..Len(calls') :
         calls'[i] = "onSnapshot" /\ subs # {}
           => \E j \in 1..(i - 1) : calls'[j] = "unsubscribe"]_vars

\* An operation replaced the live subscription by one on another source.
C10_Witness ==
  /\ calls = <<"unsubscribe", "onSnapshot">>
  /\ Cardinality(subs) = 1
  /\ op.name \in {"attachTo", "setQuery"}

\* The invocations of the onData callback among what ran in a step.
OnDataCalls(seen) == SelectSeq(seen, LAMBDA e : e.what = "onData")

\* C11: a snapshot applied to a document invokes the registered onData callback
\* exactly when the snapshot reports existence, once; the callback finds the
\* new data in place, isLoading not yet changed and the ready promise not yet
\* resolved by this snapshot.
C11_OnDataOrdering ==
  [][(kind = "document" /\ op'.name = "store")
       => /\ Len(OnDataCalls(op'.seen)) =
               IF document.onDataCallback /\ D_hasData(document') THEN 1 ELSE 0
          /\ \A i \in 1..Len(OnDataCalls(op'.seen)) :
               LET e == OnDataCalls(op'.seen)[i] IN
               /\ e.data = document'._data
               /\ e.isLoading = document.isLoading
               /\ e.status = promises[document.readyResolveFn].status]_vars

\* The first snapshot of an existing document: onData ran while the document
\* was still loading and its promise pending; now the promise is resolved.
C11_Witness ==
  /\ kind = "document"
  /\ op.name = "store"
  /\ Len(OnDataCalls(op.seen)) = 1
  /\ OnDataCalls(op.seen)[1].isLoading
  /\ OnDataCalls(op.seen)[1].status = "pending"
  /\ ~document.isLoading
  /\ promises[document.readyResolveFn].status = "resolved"

\* The runs of reactions among what ran in a step.
ReactionRuns(seen) == SelectSeq(seen, LAMBDA e : e.what = "reaction")

\* C12: every reaction that runs while a snapshot is applied to a document
\* finds the data and the isLoading the application ends with, never the new
\* data with the old isLoading or the reverse.
C12_AtomicSnapshotApplication ==
  [][(kind = "document" /\ op'.name = "store")
       => \A i \in 1..Len(ReactionRuns(op'.seen)) :
            LET e == ReactionRuns(op'.seen)[i] IN
            /\ e.data = document'._data
            /\ e.isLoading = document'.isLoading]_vars

\* The collection is as it was constructed: on a ref, with no query creator
\* function, and its source was not changed since.
C_Plain ==
  /\ kind = "collection"
  /\ changes = 0
  /\ collection.collectionRef # undefined
  /\ collection.queryCreatorFn = ""

\* C13: a collection constructed with a ref and no query creator function has
\* no documents, is not loading, and has no fetch in flight and no
\* subscription, in every state.
C13_NoQueryMeansEmpty ==
  C_Plain => /\ collection.docs = <<>>
             /\ ~collection.isLoading
             /\ fetches = {}
             /\ subs = {}

C_hasDocs == Len(collection.docs) > 0

\* The documents of the whole collection ref.
WholeCollection(ref) ==
  LET rows == QuerySnapshot([NoQuery EXCEPT !.ref = ref]).docs IN
  [i \in 1..Len(rows) |->
     [id |-> rows[i].id, ref |-> rows[i].ref, data |-> rows[i].fields]]

C15_ExistenceSemantics ==
  [][(/\ kind = "document"
      /\ op'.name = "store"
      /\ document.documentRef # undefined
      /\ op'.arg.target = document.documentRef
      /\ ~Exists(op'.arg.target))
       => /\ ~D_hasData(document')
          /\ D_data(document').threw
          /\ document'.readyPromise = Resolved(undefined)
          /\ promises'[document.readyResolveFn].status = "resolved"
          /\ promises'[document.readyResolveFn].value = undefined
          /\ ~document'.isLoading
          /\ D_id(document') = op'.arg.target[2]
          /\ D_id(document') # "__no_id"]_vars

Detach == [id |-> "", ref |-> undefined]

\* C16: attachTo() with no argument on a bound document unsubscribes the live
\* listener if there is one, and leaves no data, isLoading false, the id
\* "__no_id" and no path; every ready() on the document thus unbound issues no
\* fetch and returns a promise resolved with undefined.
C16_Detaching ==
  /\ [][(/\ kind = "document"
          /\ document.documentRef # undefined
          /\ op'.name = "attachTo"
          /\ op'.arg = Detach)
           => /\ subs' = {}
              /\ ~D_isListening'
              /\ calls' = IF D_isListening THEN <<"unsubscribe">> ELSE <<>>
              /\ ~D_hasData(document')
              /\ ~document'.isLoading
              /\ D_id(document') = "__no_id"
              /\ D_path(document') = undefined]_vars
  /\ [][(/\ kind = "document"
          /\ document.documentRef = undefined
          /\ changes > 0
          /\ op'.name = "ready")
           => /\ calls' = <<>>
              /\ fetches' = fetches
              /\ document'.readyPromise = Resolved(undefined)]_vars

\* attachTo is called with a non-empty id on a document that knows no parent
\* collection ref.
D_IdWithoutCollection ==
  /\ kind = "document"
  /\ op'.name = "attachTo"
  /\ op'.arg.ref = undefined
  /\ op'.arg.id # ""
  /\ document.collectionRef = undefined

\* The error reached the callback if one is registered and was thrown
\* otherwise; the observer and the store are as before.
D_RejectedAttach ==
  /\ Len(op'.errors) = 1
  /\ op'.errors[1].how = IF document.onErrorCallback THEN "callback" ELSE "thrown"
  /\ UNCHANGED <<document, promises, subs, fetches>>
  /\ calls' = <<>>

C18_FailedFetch ==
  /\ [][(/\ kind = "document"
          /\ op'.name = "fetchError"
          /\ D_OwnFetches' # D_OwnFetches)
           => UNCHANGED <<document, promises, subs>>]_vars
  /\ [][(D_OwnFetchFailed /\ op'.name = "ready")
           => calls' = <<>> /\ fetches' = fetches]_vars
  /\ [][(/\ D_OwnFetchFailed
          /\ promises'[document.readyResolveFn].status = "resolved")
           => /\ op'.name = "store"
              /\ fetches' = fetches
              /\ D_isListening]_vars

\* The step is the store reporting an error for a fetch or a subscription.
StoreErrorStep == op'.name \in {"fetchError", "listenerError"}

\* Whether an error callback is registered on the observer.
ErrorCallbackRegistered ==
  IF kind = "document" THEN document.onErrorCallback ELSE collection.onError

\* How handleError reports: the callback when registered, a throw otherwise.
ReportedAs(err) ==
  <<[how |-> IF ErrorCallbackRegistered THEN "callback" ELSE "thrown",
     err |-> err]>>

\* C19 as stated: every error the store reports for a fetch or a live
\* listener reaches the error callback exactly once with that very error (or
\* is thrown when no callback is registered), and the step applies no
\* snapshot and resolves no promise.
C19_StoreErrorsPassedOn ==
  [][StoreErrorStep
       => /\ op'.errors = ReportedAs(op'.arg.err)
          /\ UNCHANGED <<document, collection, promises>>]_vars

\* C19: every error the store reports reaches the error callback exactly once
\* (or is thrown when no callback is registered): a listener error as it is, a
\* fetch error as a new error whose message is the store's message prefixed by
\* "Fetch initial data failed: "; the step applies no snapshot and resolves no
\* promise.
C19_StoreErrorsNeverSwallowed ==
  [][StoreErrorStep
       => /\ op'.errors = ReportedAs(IF op'.name = "fetchError"
                                      THEN FetchFailed(op'.arg.err)
                                      ELSE op'.arg.err)
          /\ UNCHANGED <<document, collection, promises>>]_vars

C19_Witness ==
  /\ kind = "collection"
  /\ op.name = "fetchError"
  /\ op.errors = <<[how |-> "callback", err |-> FetchFailed(op.arg.err)]>>
  /\ collection.isLoading

\* The number of times the error callback ran in the step.
CallbackRuns(errors) == Len(SelectSeq(errors, LAMBDA e : e.how = "callback"))

\* C20: add(data) without a bound collection ref returns a rejected promise,
\* runs the registered error callback once (never when none is registered),
\* makes no call to the store and changes no observer state; with a bound ref
\* it calls the store's add once, returns the store's promise and changes no
\* observer state.
C20_AddWithoutCollection ==
  [][(kind = "collection" /\ op'.name = "add")
       => /\ UNCHANGED <<collection, promises, subs, fetches>>
          /\ IF collection.collectionRef = undefined
               THEN /\ op'.arg.ret = Rejected(NoRefToAdd)
                    /\ calls' = <<>>
                    /\ Len(op'.errors) = 1
                    /\ CallbackRuns(op'.errors) = IF collection.onError THEN 1 ELSE 0
               ELSE /\ op'.arg.ret = StorePromise
                    /\ calls' = <<"add">>
                    /\ op'.errors = <<>>]_vars

C20_Witness ==
  /\ kind = "collection"
  /\ op.name = "add"
  /\ collection.collectionRef = undefined
  /\ collection.onError
  /\ op.arg.ret.state = "rejected"
  /\ CallbackRuns(op.errors) = 1
  /\ calls = <<>>

\* The query the setter derives from a creator function on the bound ref.
DerivedQuery(o, queryCreatorFn) ==
  IF queryCreatorFn # "" /\ o.collectionRef # undefined
    THEN CreateQuery(queryCreatorFn, o.collectionRef)
    ELSE NoQuery

\* C21: assigning a query creator whose derived query equals the current
\* query, or one that derives no query when none is set, changes nothing but
\* the stored creator function: documents, isLoading, the ready promise, the
\* fetched-once flag, the source marker and the listener stay as they were and
\* no store call is made.
C21_RedundantQuerySet ==
  [][(/\ kind = "collection"
      /\ op'.name = "setQuery"
      /\ DerivedQuery(collection, op'.arg.queryCreatorFn) = collection._query)
       => /\ collection' = [collection EXCEPT
                                !.queryCreatorFn = op'.arg.queryCreatorFn]
          /\ UNCHANGED <<promises, subs, fetches>>
          /\ calls' = <<>>
          /\ op'.errors = <<>>]_vars

\* The same query is assigned again while its documents are held and a
\* listener is attached.
C21_Witness ==
  /\ kind = "collection"
  /\ op.name = "setQuery"
  /\ op.arg.queryCreatorFn = "byDate"
  /\ collection._query = CreateQuery("byDate", collection.collectionRef)
  /\ collection.docs # <<>>
  /\ ~collection.isLoading
  /\ subs # {}
  /\ calls = <<>>

\* The step is the query setter installing a query that differs from the
\* current one.
QueryChangeStep ==
  /\ kind = "collection"
  /\ op'.name = "setQuery"
  /\ DerivedQuery(collection, op'.arg.queryCreatorFn) # collection._query

\* C22: a query assignment that changes the query discards the documents held
\* at once, clears the fetched-once flag and sets isLoading to whether the new
\* query is present; on an observed collection with a new query present the
\* only subscription left is one on the new query.
C22_QueryChangeReset ==
  [][QueryChangeStep
       => /\ collection'.docs = <<>>
          /\ ~collection'.firedInitialFetch
          /\ collection'.isLoading = (collection'._query # NoQuery)
          /\ (collection.observedCount > 0 /\ collection'._query # NoQuery)
               => /\ subs' # {}
                  /\ \A s \in subs' : s.target = collection'._query]_vars

\* The step is attachTo with a collection ref that differs from the bound one,
\* while documents are held.
SourceReplacementStep ==
  /\ kind = "collection"
  /\ op'.name = "attachTo"
  /\ op'.arg.ref # undefined
  /\ collection.collectionRef # undefined
  /\ op'.arg.ref # collection.collectionRef
  /\ collection.docs # <<>>

\* C23: attachTo with another collection ref while documents are held empties
\* the documents at once, installs a fresh pending ready promise, clears the
\* fetched-once flag and sets isLoading.
C23_SourceReplacementReset ==
  [][SourceReplacementStep
       => /\ collection'.docs = <<>>
          /\ collection'.readyResolveFn # collection.readyResolveFn
          /\ collection'.readyPromise = Deferred(collection'.readyResolveFn)
          /\ promises'[collection'.readyResolveFn].status = "pending"
          /\ ~collection'.firedInitialFetch
          /\ collection'.isLoading]_vars

\* The step called the store for a fetch or a subscription.
FetchOrSubscribe(c) ==
  \E i \in 1..Len(c) : c[i] \in {"getDoc", "get", "onSnapshot"}

\* The number of observed fields the observer counts.
ObservedCount ==
  IF kind = "document" THEN document.observedCount ELSE collection.observedCount

\* C24: construction contacts the store not at all and leaves a document
\* constructed from a document ref loading; attachTo on an unobserved observer
\* contacts the store not at all and leaves a newly bound document loading;
\* the store is asked for a fetch or a subscription only by ready(), by a
\* field becoming observed, or by a source or query change on an observed
\* observer.
C24_ConstructionMakesNoCall ==
  /\ (op.name = "new"
        => /\ calls = <<>> /\ subs = {} /\ fetches = {}
           /\ (kind = "document" /\ document.documentRef # undefined)
                => document.isLoading)
  /\ [][(op'.name = "attachTo" /\ ObservedCount = 0)
           => /\ calls' = <<>>
              /\ subs' = subs
              /\ fetches' = fetches
              /\ (/\ kind = "document"
                  /\ document'.documentRef # undefined
                  /\ document'.documentRef # document.documentRef)
                   => document'.isLoading]_vars
  /\ [][FetchOrSubscribe(calls')
           => \/ op'.name \in {"ready", "hook"}
              \/ op'.name \in {"attachTo", "setQuery"} /\ ObservedCount > 0]_vars

\* An unobserved document was attached to another document and is loading
\* with nothing asked of the store.
C24_Witness ==
  /\ kind = "document"
  /\ op.name = "attachTo"
  /\ changes > 0
  /\ document.observedCount = 0
  /\ document.documentRef # undefined
  /\ document.isLoading
  /\ calls = <<>>
  /\ subs = {}
  /\ fetches = {}

\* The ready promise the observer holds.
ReadyPromise ==
  IF kind = "document" THEN document.readyPromise ELSE collection.readyPromise

\* The observer has a source to read: ready() on a collection without a ref
\* reports an error instead.
HasSource == kind = "collection" => collection.collectionRef # undefined

\* C25: attachTo returns the observer itself, on both observer types, and a
\* ready() call made on what it returned returns the ready promise installed
\* for the attached source.
C25_AttachToChainable ==
  /\ [][op'.name = "attachTo" => op'.ret = This]_vars
  /\ [][(op.name = "attachTo" /\ HasSource /\ op'.name = "ready" /\ Returned')
           => /\ op'.ret = ReadyPromise
              /\ ReadyPromise' = ReadyPromise]_vars

\* C26: every applied snapshot leaves the ready promise already resolved with
\* that snapshot's payload; only a snapshot or attachTo replaces the promise;
\* so once a snapshot of the bound source has been applied, every ready() call
\* returns a resolved promise holding the payload of the snapshot applied
\* last, and two ready() calls in a row return the same.
C26_RepeatedReady ==
  /\ [][(kind = "document" /\ op'.name = "store")
           => document'.readyPromise = Resolved(Payload(DocSnapshot(op'.arg.target)))]_vars
  /\ [][(kind = "document" /\ op'.name \notin {"store", "attachTo"})
           => document'.readyPromise = document.readyPromise]_vars
  /\ [][(kind = "document" /\ fresh /\ op'.name = "ready")
           => /\ op'.ret = document.readyPromise
              /\ op'.ret.state = "resolved"
              /\ op'.ret.value = (IF D_hasData(document) THEN document._data
                                                         ELSE undefined)
              /\ (op.name = "ready" => op'.ret = op.ret)]_vars

\* A ready() call after the snapshot of the bound document was applied
\* returned its payload without asking the store.
C26_Witness ==
  /\ kind = "document"
  /\ fresh
  /\ op.name = "ready"
  /\ op.ret = Resolved(document.documentRef)
  /\ D_hasData(document)
  /\ calls = <<>>

StaleFetchStep ==
  /\ kind = "document"
  /\ op'.name = "store"
  /\ fetches' # fetches
  /\ document.documentRef # undefined
  /\ op'.arg.target # document.documentRef

\* C28: the answer to a fetch issued for an earlier source is applied to the
\* document as it is now: its payload becomes the data and isLoading becomes
\* false while the later source stays bound.
C28_StaleFetchApplied ==
  [][StaleFetchStep
       => /\ document'._data = Payload(DocSnapshot(op'.arg.target))
          /\ ~document'.isLoading
          /\ document'.documentRef = document.documentRef]_vars

\* The document bound to c1/n holds the payload of c1/a.
C28_Witness ==
  /\ kind = "document"
  /\ op.name = "store"
  /\ document.documentRef = <<"c1", "n">>
  /\ document._data = DocSnapshot(<<"c1", "a">>).data
  /\ ~document.isLoading
  /\ subs = {}

\* A fetch is in flight, or a listener is attached that has not delivered a
\* snapshot of the bound source yet.
D_WorkOutstanding ==
  \/ fetches # {}
  \/ D_isListening /\ ~fresh

\* C29 as stated: a document is loading exactly while a fetch is in flight or
\* an attached listener has not delivered its first snapshot of the bound
\* source.
C29_LoadingTracksOutstandingWork ==
  kind = "document" => (document.isLoading <=> D_WorkOutstanding)

\* C29: a document is loading exactly while a document ref is bound and no
\* snapshot has been applied since it was bound, that is, while the ready
\* promise of the bound ref is pending - whether or not anything is
\* outstanding at the store.
C29_LoadingUntilSnapshot ==
  kind = "document"
    => (document.isLoading
          <=> /\ document.documentRef # undefined
              /\ promises[document.readyResolveFn].status = "pending")

\* The only fetch has failed: the document is loading with nothing
\* outstanding.
C29_Witness ==
  /\ kind = "document"
  /\ op.name = "fetchError"
  /\ document.isLoading
  /\ document.firedInitialFetch
  /\ fetches = {}
  /\ subs = {}

\* ref.parent: the collection a document ref lies in.
Parent(ref) == <<ref[1]>>

\* C30: whenever a document ref is bound the retained collection ref is its
\* parent collection, so attachTo(id) binds the document of that id in the
\* collection of the document bound before; attachTo(ref) on a document
\* constructed with no source thus lets a later attachTo(id) succeed.
C30_SiblingRederivation ==
  /\ [](kind = "document" /\ document.documentRef # undefined
          => document.collectionRef = Parent(document.documentRef))
  /\ [][(/\ kind = "document"
          /\ document.documentRef # undefined
          /\ op'.name = "attachTo"
          /\ op'.arg.ref = undefined
          /\ op'.arg.id # "")
           => /\ op'.errors = <<>>
              /\ document'.documentRef = Parent(document.documentRef) \o <<op'.arg.id>>]_vars

\* The step applies a snapshot of the bound document, from a fetch or from a
\* listener.
SnapshotOfBoundStep ==
  /\ kind = "document"
  /\ op'.name = "store"
  /\ document.documentRef # undefined
  /\ op'.arg.target = document.documentRef

\* C31: a snapshot of the bound document leaves the same state whether a
\* one-shot fetch or a live listener delivered it: the data is its payload,
\* hasData tells whether the document exists, isLoading is false, the ready
\* promise is resolved with the payload, and a pending promise of the bound
\* source is resolved with it; and ready() on a listening document issues no
\* fetch.
C31_PathsAgree ==
  /\ [][SnapshotOfBoundStep
           => LET v == Payload(DocSnapshot(document.documentRef))
                  d == document.readyResolveFn
              IN  /\ document'._data = v
                  /\ D_hasData(document') = Exists(document.documentRef)
                  /\ ~document'.isLoading
                  /\ document'.readyPromise = Resolved(v)
                  /\ promises[d].status = "pending"
                       => /\ promises'[d].status = "resolved"
                          /\ promises'[d].value = v]_vars
  /\ [][(kind = "document" /\ op'.name = "ready" /\ D_isListening)
           => calls' = <<>> /\ fetches' = fetches]_vars

\* The listener path: the awaited promise of an observed document was
\* resolved by a listener snapshot, no fetch ever issued.
C31_Witness ==
  /\ kind = "document"
  /\ op.name = "store"
  /\ changes = 0
  /\ D_isListening
  /\ ~document.firedInitialFetch
  /\ fetches = {}
  /\ op.arg.target = document.documentRef
  /\ document._data = document.documentRef
  /\ ~document.isLoading
  /\ promises[document.readyResolveFn].status = "resolved"
  /\ promises[document.readyResolveFn].value = document.documentRef

\* What updateListeners(shouldListen) must do to world w0 to give w: target
\* is the source to subscribe to (undefined when there is none) and cleared
\* the value of a cleared marker.
GuardedUpdate(w0, w, shouldListen, target, cleared) ==
  LET isListening == w0.o.onSnapshotUnsubscribeFn # undefined
      kept == {s \in w0.subs : isListening => s.id # w0.o.onSnapshotUnsubscribeFn[1]}
  IN  IF shouldListen /\ isListening /\ w0.o.sourcePath = w0.o.listenerSourcePath
        THEN w = w0
      ELSE IF ~shouldListen
        THEN /\ w.subs = kept
             /\ w.calls = IF isListening THEN <<"unsubscribe">> ELSE <<>>
             /\ w.o.onSnapshotUnsubscribeFn = undefined
             /\ isListening => w.o.listenerSourcePath = cleared
      ELSE IF target # undefined
        THEN /\ w.o.onSnapshotUnsubscribeFn # undefined
             /\ \E s \in w.subs :
                  /\ s.id = w.o.onSnapshotUnsubscribeFn[1]
                  /\ s.target = target
                  /\ s \notin kept
                  /\ w.subs = kept \cup {s}
             /\ w.calls = IF isListening THEN <<"unsubscribe", "onSnapshot">>
                                          ELSE <<"onSnapshot">>
             /\ w.o.listenerSourcePath = w.o.sourcePath
        ELSE /\ w.subs = kept
             /\ w.calls = IF isListening THEN <<"unsubscribe">> ELSE <<>>
             /\ w.o.onSnapshotUnsubscribeFn = undefined

\* C32: in every reachable state of either observer, a request to listen
\* while a listener exists whose recorded marker equals the source marker
\* changes nothing and calls nothing; any other request to listen
\* unsubscribes the listener there is, subscribes to the current source and
\* records the current marker; a request to stop unsubscribes and clears the
\* marker.
C32_DuplicateSubscriptionGuard ==
  \A shouldListen \in BOOLEAN :
    IF kind = "document"
      THEN GuardedUpdate(World(document),
                         D_updateListeners(World(document), shouldListen),
                         shouldListen, document.documentRef, undefined)
      ELSE GuardedUpdate(C_World(collection),
                         C_updateListeners(C_World(collection), shouldListen),
                         shouldListen,
                         IF C_target(collection) # NoQuery
                           THEN C_target(collection) ELSE undefined,
                         0)

\* attachTo on an observed collection asked to listen while the listener's
\* marker equalled the source marker: nothing was unsubscribed or subscribed.
C32_Witness ==
  /\ kind = "collection"
  /\ op.name = "attachTo"
  /\ op.arg.ref = <<"c2">>
  /\ collection.collectionRef = <<"c2">>
  /\ C_isListening
  /\ collection.sourcePath = collection.listenerSourcePath
  /\ calls = <<>>
  /\ \E s \in subs : s.target.ref = <<"c1">>

\* The step is a snapshot the collection applies: one a subscription's
\* callback drops only counts the invocation, which changes subs.
C_AppliedSnapshotStep ==
  /\ kind = "collection"
  /\ op'.name = "store"
  /\ (fetches' # fetches \/ subs' = subs)

\* The documents of a snapshot: each row as {id, ref, data}, in row order.
Entities(snapshot) ==
  [i \in 1..Len(snapshot.docs) |->
     [id |-> snapshot.docs[i].id, ref |-> snapshot.docs[i].ref,
      data |-> snapshot.docs[i].fields]]

\* C33: a snapshot applied to a collection leaves as documents exactly its
\* rows, in its order, each as {id, ref, data}, whatever was held before;
\* isLoading is false, the ready promise is resolved with those documents and
\* a promise pending until then is resolved with them.
C33_SnapshotsReplaceWholesale ==
  [][C_AppliedSnapshotStep
       => LET docs == Entities(QuerySnapshot(op'.arg.target))
              d == collection.readyResolveFn
          IN  /\ collection'.docs = docs
              /\ ~collection'.isLoading
              /\ collection'.readyPromise = Resolved(docs)
              /\ promises'[d].status = "resolved"
              /\ promises[d].status = "pending" => promises'[d].value = docs]_vars

\* After a source change a snapshot of the query by date on c2 was applied:
\* the documents are its rows and the ready promise holds them.
C33_Witness ==
  /\ kind = "collection"
  /\ op.name = "store"
  /\ changes > 0
  /\ op.arg.target = CreateQuery("byDate", <<"c2">>)
  /\ collection.docs = Entities(QuerySnapshot(op.arg.target))
  /\ collection.docs # <<>>
  /\ ~collection.isLoading
  /\ collection.readyPromise = Resolved(collection.docs)

\* The step is a live subscription of the collection delivering a snapshot.
C_ListenerStep ==
  /\ kind = "collection"
  /\ op'.name = "store"
  /\ fetches' = fetches

\* The step applied the snapshot it delivered.
C_Applied ==
  /\ collection'.docs = Entities(QuerySnapshot(op'.arg.target))
  /\ ~collection'.isLoading
  /\ collection'.readyPromise = Resolved(collection'.docs)

\* C34: with ignoreInitialSnapshot set, the first snapshot a subscription
\* delivers is only counted - documents, isLoading and the ready promise stay -
\* and its later ones are applied; with the option unset every snapshot is
\* applied; every new subscription starts counting afresh; the answer to a
\* one-shot fetch is always applied.
C34_IgnoreInitialSnapshot ==
  /\ [][C_ListenerStep
           => \E s \in subs :
                /\ s.target = op'.arg.target
                /\ IF collection.ignoreInitialSnapshot /\ s.executionCount = 0
                     THEN /\ collection' = collection
                          /\ promises' = promises
                          /\ subs' = (subs \ {s}) \cup {[s EXCEPT !.executionCount = 1]}
                     ELSE /\ C_Applied
                          /\ subs' = subs]_vars
  /\ [][(kind = "collection"
          /\ \E i \in 1..Len(calls') : calls'[i] = "onSnapshot")
           => /\ collection'.onSnapshotUnsubscribeFn # undefined
              /\ \E s \in subs' :
                   /\ s.id = collection'.onSnapshotUnsubscribeFn[1]
                   /\ s.executionCount = 0]_vars
  /\ [][(kind = "collection" /\ op'.name = "store" /\ fetches' # fetches)
           => C_Applied /\ subs' = subs]_vars

\* With the option set, a subscription whose first snapshot was dropped has
\* delivered a later one, which was applied; no fetch was ever issued.
C34_Witness ==
  /\ kind = "collection"
  /\ collection.ignoreInitialSnapshot
  /\ op.name = "store"
  /\ ~collection.firedInitialFetch
  /\ fetches = {}
  /\ changes = 0
  /\ \E s \in subs : s.executionCount = 1 /\ s.target = op.arg.target
  /\ collection.docs = Entities(QuerySnapshot(op.arg.target))
  /\ collection.docs # <<>>
  /\ ~collection.isLoading

NoRefToFetch == "Can not fetch data without a collection reference"

\* C35: ready() on a collection with no collection ref issues no fetch,
\* reports the configuration error through the error callback, or throws it
\* when none is registered, and leaves the collection's fields and the
\* subscriptions as they were.
C35_ReadyWithoutCollection ==
  [][(/\ kind = "collection"
      /\ op'.name = "ready"
      /\ collection.collectionRef = undefined)
       => /\ calls' = <<>>
          /\ fetches' = fetches
          /\ op'.errors = ReportedAs(NoRefToFetch)
          /\ collection' = collection
          /\ subs' = subs]_vars

\* The promise ready() would return in this state is unresolved.
D_ReadyUnresolved ==
  /\ document.readyPromise.state = "deferred"
  /\ promises[document.readyPromise.id].status = "pending"

\* C36: in every reachable state of a document the promise ready() would
\* return is unresolved exactly when isLoading is true.
C36_ReadyAgreesWithLoading ==
  kind = "document" => (D_ReadyUnresolved <=> document.isLoading)

\* C37: in every reachable state of either observer, isLoading implies that
\* a source is bound (a document ref, a collection ref), and so does an
\* attached listener.
C37_LoadingImpliesSource ==
  IF kind = "document"
    THEN (document.isLoading \/ D_isListening) => document.documentRef # undefined
    ELSE (collection.isLoading \/ C_isListening)
           => collection.collectionRef # undefined

\* ready() has just returned the pending deferred promise d of a bound document.
D_ReturnedWhileBound(d) ==
  /\ kind = "document"
  /\ op.name = "ready"
  /\ document.documentRef # undefined
  /\ op.ret.state = "deferred"
  /\ op.ret.id = d
  /\ Status(d) = "pending"

\* Promise d is no longer the one the document resolves, and is unresolved.
D_SupersededPending(d) ==
  /\ kind = "document"
  /\ document.readyResolveFn # d
  /\ Status(d) = "pending"

\* C38: a promise that ready() returned while a source was bound and that was
\* still unresolved when attachTo replaced it (by another source or by none)
\* is eventually settled.
C38_SupersededPromisesSettle ==
  \A d \in Generations :
    [](D_ReturnedWhileBound(d)
         => [](D_SupersededPending(d) => <>(Status(d) # "pending")))

====
